---- MODULE Spec2Model ----
(***************************************************************************)
(* A model of the upid crate: the base32 codec of b32.rs and the Upid      *)
(* value type of lib.rs.                                                   *)
(*                                                                         *)
(* Representation.  A u128 is kept as its 16 big-endian bytes (the value   *)
(* of u128::to_be_bytes), a u64 as its 8 big-endian bytes, because the     *)
(* codec works byte by byte and the integers of the model checker are      *)
(* narrower than 128 bits.  A Rust string is a sequence of Unicode code    *)
(* points; its bytes are the UTF-8 encoding of that sequence.              *)
(***************************************************************************)
EXTENDS Integers, Sequences, FiniteSets

VARIABLES pc, val, str, res, out, args, upid, args2, upid2

vars == <<pc, val, str, res, out, args, upid, args2, upid2>>

(***************************************************************************)
(* Bounds of the model.                                                    *)
(***************************************************************************)
\* number of bytes of a base value that an input value may differ in
MaxEdits == 1
\* number of code points of a base text that an input text may differ in
MaxSubst == 1
\* number of trailing code points an input text may lack
MaxCut == 1
\* length of the longest prefix argument
MaxPrefixLen == 5
\* number of 256 ms steps the timestamp arguments span
MaxTick == 1

(***************************************************************************)
(* u8 arithmetic.                                                          *)
(***************************************************************************)
RECURSIVE BitAnd(_, _)
BitAnd(x, y) ==
    IF x = 0 \/ y = 0 THEN 0
    ELSE (x % 2) * (y % 2) + 2 * BitAnd(x \div 2, y \div 2)

RECURSIVE BitOr(_, _)
BitOr(x, y) ==
    IF x = 0 THEN y
    ELSE IF y = 0 THEN x
    ELSE (IF x % 2 = 1 \/ y % 2 = 1 THEN 1 ELSE 0) + 2 * BitOr(x \div 2, y \div 2)

\* u8 << n: the bits shifted past bit 7 are dropped
Shl(x, n) == (x * (2 ^ n)) % 256

\* u8 >> n
Shr(x, n) == x \div (2 ^ n)

\* slice[i] with the 0-based index of the source
At(s, i) == s[i + 1]

\* &slice[from..to] with the 0-based, end-exclusive bounds of the source
Slice(s, from, to) == SubSeq(s, from + 1, to)

(***************************************************************************)
(* Strings: code points and their UTF-8 bytes.                             *)
(***************************************************************************)
\* the UTF-8 encoding of a code point below U+0800
Utf8(c) ==
    IF c < 128 THEN <<c>>
    ELSE <<192 + (c \div 64), 128 + (c % 64)>>

\* str::as_bytes / str::bytes
RECURSIVE AsBytes(_)
AsBytes(s) == IF s = <<>> THEN <<>> ELSE Utf8(Head(s)) \o AsBytes(Tail(s))

\* str::replace(c, "")
RECURSIVE RemoveChar(_, _)
RemoveChar(s, c) ==
    IF s = <<>> THEN <<>>
    ELSE IF Head(s) = c THEN RemoveChar(Tail(s), c)
    ELSE <<Head(s)>> \o RemoveChar(Tail(s), c)

(***************************************************************************)
(* b32.rs: constants and tables.                                           *)
(***************************************************************************)
TIME_BIN_LEN == 5
RANDO_BIN_LEN == 8
END_RANDO_BIN == 13
PREFIX_BIN_LEN == 3
PREFIX_CHAR_LEN == 4
TIME_CHAR_LEN == 8
END_TIME_CHAR == 12
RANDO_CHAR_LEN == 13
VERSION_CHAR_LEN == 1
CHAR_LEN == 26

\* '_'
UNDERSCORE == 95

\* the alphabet of RFC 4648, letters before digits:
\* b"abcdefghijklmnopqrstuvwxyz234567"
ENCODE_rfc4648 ==
    <<97, 98, 99, 100, 101, 102, 103, 104, 105, 106, 107, 108, 109,
      110, 111, 112, 113, 114, 115, 116, 117, 118, 119, 120, 121, 122,
      50, 51, 52, 53, 54, 55>>

\* b"234567abcdefghijklmnopqrstuvwxyz"
ENCODE ==
    <<50, 51, 52, 53, 54, 55,
      97, 98, 99, 100, 101, 102, 103, 104, 105, 106, 107, 108, 109,
      110, 111, 112, 113, 114, 115, 116, 117, 118, 119, 120, 121, 122>>

\* ENCODE[i as usize]
Enc(i) == ENCODE[i + 1]

\* the inverse lookup table: 255 for every byte outside the alphabet
DECODE(b) ==
    IF b \in 50..55 THEN b - 50
    ELSE IF b \in 97..122 THEN b - 97 + 6
    ELSE 255

\* ENCODE.contains(&b)
InAlphabet(b) == \E i \in 1..Len(ENCODE) : ENCODE[i] = b

(***************************************************************************)
(* b32.rs: encode.                                                         *)
(***************************************************************************)
encode_prefix(binary) ==
    [prefix |->
        << Enc(Shr(BitAnd(At(binary, 0), 248), 3)),
           Enc(BitOr(Shl(BitAnd(At(binary, 0), 7), 2), Shr(BitAnd(At(binary, 1), 192), 6))),
           Enc(Shr(BitAnd(At(binary, 1), 62), 1)),
           Enc(BitOr(Shl(BitAnd(At(binary, 1), 1), 4), Shr(BitAnd(At(binary, 2), 240), 4))) >>,
     version |-> << Enc(BitAnd(At(binary, 2), 15)) >>]

encode_time(binary) ==
    << Enc(Shr(BitAnd(At(binary, 0), 248), 3)),
       Enc(BitOr(Shl(BitAnd(At(binary, 0), 7), 2), Shr(BitAnd(At(binary, 1), 192), 6))),
       Enc(Shr(BitAnd(At(binary, 1), 62), 1)),
       Enc(BitOr(Shl(BitAnd(At(binary, 1), 1), 4), Shr(BitAnd(At(binary, 2), 240), 4))),
       Enc(BitOr(Shl(BitAnd(At(binary, 2), 15), 1), Shr(BitAnd(At(binary, 3), 128), 7))),
       Enc(Shr(BitAnd(At(binary, 3), 124), 2)),
       Enc(BitOr(Shl(BitAnd(At(binary, 3), 3), 3), Shr(BitAnd(At(binary, 4), 224), 5))),
       Enc(BitAnd(At(binary, 4), 31)) >>

\* encode_rando with the last symbol taken from 5 bits of the last byte
encode_rando_5bit(binary) ==
    << Enc(Shr(BitAnd(At(binary, 0), 248), 3)),
       Enc(BitOr(Shl(BitAnd(At(binary, 0), 7), 2), Shr(BitAnd(At(binary, 1), 192), 6))),
       Enc(Shr(BitAnd(At(binary, 1), 62), 1)),
       Enc(BitOr(Shl(BitAnd(At(binary, 1), 1), 4), Shr(BitAnd(At(binary, 2), 240), 4))),
       Enc(BitOr(Shl(BitAnd(At(binary, 2), 15), 1), Shr(BitAnd(At(binary, 3), 128), 7))),
       Enc(Shr(BitAnd(At(binary, 3), 124), 2)),
       Enc(BitOr(Shl(BitAnd(At(binary, 3), 3), 3), Shr(BitAnd(At(binary, 4), 224), 5))),
       Enc(BitAnd(At(binary, 4), 31)),
       Enc(Shr(BitAnd(At(binary, 5), 248), 3)),
       Enc(BitOr(Shl(BitAnd(At(binary, 5), 7), 2), Shr(BitAnd(At(binary, 6), 192), 6))),
       Enc(Shr(BitAnd(At(binary, 6), 62), 1)),
       Enc(BitOr(Shl(BitAnd(At(binary, 6), 1), 4), Shr(BitAnd(At(binary, 7), 240), 4))),
       Enc(BitAnd(At(binary, 7), 31)) >>

encode_rando(binary) ==
    << Enc(Shr(BitAnd(At(binary, 0), 248), 3)),
       Enc(BitOr(Shl(BitAnd(At(binary, 0), 7), 2), Shr(BitAnd(At(binary, 1), 192), 6))),
       Enc(Shr(BitAnd(At(binary, 1), 62), 1)),
       Enc(BitOr(Shl(BitAnd(At(binary, 1), 1), 4), Shr(BitAnd(At(binary, 2), 240), 4))),
       Enc(BitOr(Shl(BitAnd(At(binary, 2), 15), 1), Shr(BitAnd(At(binary, 3), 128), 7))),
       Enc(Shr(BitAnd(At(binary, 3), 124), 2)),
       Enc(BitOr(Shl(BitAnd(At(binary, 3), 3), 3), Shr(BitAnd(At(binary, 4), 224), 5))),
       Enc(BitAnd(At(binary, 4), 31)),
       Enc(Shr(BitAnd(At(binary, 5), 248), 3)),
       Enc(BitOr(Shl(BitAnd(At(binary, 5), 7), 2), Shr(BitAnd(At(binary, 6), 192), 6))),
       Enc(Shr(BitAnd(At(binary, 6), 62), 1)),
       Enc(BitOr(Shl(BitAnd(At(binary, 6), 1), 4), Shr(BitAnd(At(binary, 7), 240), 4))),
       Enc(BitAnd(At(binary, 7), 15)) >>

\* encode with the randomness block written before the time block
encode_rando_first(binary) ==
    LET time == encode_time(Slice(binary, 0, TIME_BIN_LEN))
        rando == encode_rando(Slice(binary, TIME_BIN_LEN, END_RANDO_BIN))
        pv == encode_prefix(Slice(binary, END_RANDO_BIN, Len(binary)))
    IN  pv.prefix \o <<UNDERSCORE>> \o rando \o time \o pv.version

\* format!("{}_{}{}{}", prefix, time, rando, version)
encode(binary) ==
    LET time == encode_time(Slice(binary, 0, TIME_BIN_LEN))
        rando == encode_rando(Slice(binary, TIME_BIN_LEN, END_RANDO_BIN))
        pv == encode_prefix(Slice(binary, END_RANDO_BIN, Len(binary)))
    IN  pv.prefix \o <<UNDERSCORE>> \o time \o rando \o pv.version

(***************************************************************************)
(* b32.rs: decode.                                                         *)
(***************************************************************************)
Ok(v) == [ok |-> TRUE, val |-> v, err |-> "none"]
Err(e) == [ok |-> FALSE, val |-> <<>>, err |-> e]

\* decode_prefix without the half-alphabet test of its last character
decode_prefix_unchecked(encoded) ==
    IF FALSE THEN Err("Overflow")
    ELSE Ok(
        << BitOr(Shl(DECODE(At(encoded, 0)), 3), Shr(DECODE(At(encoded, 1)), 2)),
           BitOr(BitOr(Shl(DECODE(At(encoded, 1)), 6), Shl(DECODE(At(encoded, 2)), 1)),
                 Shr(DECODE(At(encoded, 3)), 4)),
           BitOr(Shl(DECODE(At(encoded, 3)), 4), BitAnd(DECODE(At(encoded, 4)), 15)) >>)

decode_prefix(encoded) ==
    IF DECODE(At(encoded, Len(encoded) - 1)) > 15 THEN Err("Overflow")
    ELSE Ok(
        << BitOr(Shl(DECODE(At(encoded, 0)), 3), Shr(DECODE(At(encoded, 1)), 2)),
           BitOr(BitOr(Shl(DECODE(At(encoded, 1)), 6), Shl(DECODE(At(encoded, 2)), 1)),
                 Shr(DECODE(At(encoded, 3)), 4)),
           BitOr(Shl(DECODE(At(encoded, 3)), 4), BitAnd(DECODE(At(encoded, 4)), 15)) >>)

\* decode_time with the third byte's low bits shifted one place too far
decode_time_shift(encoded) ==
    Ok(
        << BitOr(Shl(DECODE(At(encoded, 0)), 3), Shr(DECODE(At(encoded, 1)), 2)),
           BitOr(BitOr(Shl(DECODE(At(encoded, 1)), 6), Shl(DECODE(At(encoded, 2)), 1)),
                 Shr(DECODE(At(encoded, 3)), 4)),
           BitOr(Shl(DECODE(At(encoded, 3)), 4), Shr(DECODE(At(encoded, 4)), 2)),
           BitOr(BitOr(Shl(DECODE(At(encoded, 4)), 7), Shl(DECODE(At(encoded, 5)), 2)),
                 Shr(DECODE(At(encoded, 6)), 3)),
           BitOr(Shl(DECODE(At(encoded, 6)), 5), DECODE(At(encoded, 7))) >>)

decode_time(encoded) ==
    Ok(
        << BitOr(Shl(DECODE(At(encoded, 0)), 3), Shr(DECODE(At(encoded, 1)), 2)),
           BitOr(BitOr(Shl(DECODE(At(encoded, 1)), 6), Shl(DECODE(At(encoded, 2)), 1)),
                 Shr(DECODE(At(encoded, 3)), 4)),
           BitOr(Shl(DECODE(At(encoded, 3)), 4), Shr(DECODE(At(encoded, 4)), 1)),
           BitOr(BitOr(Shl(DECODE(At(encoded, 4)), 7), Shl(DECODE(At(encoded, 5)), 2)),
                 Shr(DECODE(At(encoded, 6)), 3)),
           BitOr(Shl(DECODE(At(encoded, 6)), 5), DECODE(At(encoded, 7))) >>)

decode_rando(encoded) ==
    IF DECODE(At(encoded, Len(encoded) - 1)) > 15 THEN Err("Overflow")
    ELSE Ok(
        << BitOr(Shl(DECODE(At(encoded, 0)), 3), Shr(DECODE(At(encoded, 1)), 2)),
           BitOr(BitOr(Shl(DECODE(At(encoded, 1)), 6), Shl(DECODE(At(encoded, 2)), 1)),
                 Shr(DECODE(At(encoded, 3)), 4)),
           BitOr(Shl(DECODE(At(encoded, 3)), 4), Shr(DECODE(At(encoded, 4)), 1)),
           BitOr(BitOr(Shl(DECODE(At(encoded, 4)), 7), Shl(DECODE(At(encoded, 5)), 2)),
                 Shr(DECODE(At(encoded, 6)), 3)),
           BitOr(Shl(DECODE(At(encoded, 6)), 5), DECODE(At(encoded, 7))),
           BitOr(Shl(DECODE(At(encoded, 8)), 3), Shr(DECODE(At(encoded, 9)), 2)),
           BitOr(BitOr(Shl(DECODE(At(encoded, 9)), 6), Shl(DECODE(At(encoded, 10)), 1)),
                 Shr(DECODE(At(encoded, 11)), 4)),
           BitOr(Shl(DECODE(At(encoded, 11)), 4), BitAnd(DECODE(At(encoded, 12)), 15)) >>)

\* the length test of decode: String::len counts bytes
LengthOk(bytes) == Len(bytes) = CHAR_LEN

decode(encoded) ==
    LET bytes == AsBytes(RemoveChar(encoded, UNDERSCORE))
    IN  IF ~LengthOk(bytes) THEN Err("InvalidLength")
        ELSE IF \E i \in 1..Len(bytes) : ~InAlphabet(bytes[i]) THEN Err("InvalidChar")
        ELSE
            LET prefix_bytes == Slice(bytes, 0, PREFIX_CHAR_LEN) \o <<At(bytes, Len(bytes) - 1)>>
                p == decode_prefix(prefix_bytes)
                time == decode_time(Slice(bytes, PREFIX_CHAR_LEN, END_TIME_CHAR))
                rando == decode_rando(Slice(bytes, END_TIME_CHAR, Len(bytes) - 1))
            IN  IF ~p.ok THEN p
                ELSE IF ~time.ok THEN time
                ELSE IF ~rando.ok THEN rando
                ELSE Ok(time.val \o rando.val \o p.val)

(***************************************************************************)
(* u128 / u64 arithmetic on big-endian byte sequences.                     *)
(***************************************************************************)
Zeros(n) == [i \in 1..n |-> 0]

\* x << (8 * n) on a u128: the bytes shifted past the top are dropped
ShlBytes(x, n) == SubSeq(x, n + 1, Len(x)) \o Zeros(n)

\* x >> (8 * n) on a u128
ShrBytes(x, n) == Zeros(n) \o SubSeq(x, 1, Len(x) - n)

\* x | y
OrBytes(x, y) == [i \in 1..Len(x) |-> BitOr(x[i], y[i])]

\* b as u128, for a u8
U128FromU8(b) == Zeros(15) \o <<b>>

\* r as u128, for a u64
U128FromU64(r) == Zeros(8) \o r

\* x as u64, for a u128
U64FromU128(x) == SubSeq(x, 9, 16)

\* x < y for two integers of the same width
RECURSIVE LessBytes(_, _)
LessBytes(x, y) ==
    IF x = <<>> THEN FALSE
    ELSE IF Head(x) # Head(y) THEN Head(x) < Head(y)
    ELSE LessBytes(Tail(x), Tail(y))

\* x - y for x >= y, two integers of the same width
RECURSIVE SubBorrow(_, _, _, _)
SubBorrow(x, y, i, borrow) ==
    IF i = 0 THEN <<>>
    ELSE LET d == x[i] - y[i] - borrow
         IN  SubBorrow(x, y, i - 1, IF d < 0 THEN 1 ELSE 0) \o <<d % 256>>

SubBytes(x, y) == SubBorrow(x, y, Len(x), 0)

\* s < t for two strings: str's Ord compares the bytes lexicographically
RECURSIVE LexLess(_, _)
LexLess(x, y) ==
    IF y = <<>> THEN FALSE
    ELSE IF x = <<>> THEN TRUE
    ELSE IF Head(x) # Head(y) THEN Head(x) < Head(y)
    ELSE LexLess(Tail(x), Tail(y))

StrLess(s, t) == LexLess(AsBytes(s), AsBytes(t))

(***************************************************************************)
(* lib.rs: the Upid value.                                                 *)
(***************************************************************************)
\* a version character of the upper half of the alphabet: "z"
VERSION_upper == <<122>>

\* "a"
VERSION == <<97>>

\* 'z', the fill character of format!("{:z<4}", prefix)
PAD == 122

Panic == [ok |-> FALSE, val |-> <<>>, err |-> "panic"]

\* PadPrefix with the fill on the left, as "{:z>4}" would do
PadPrefixLeft(p) == IF Len(p) >= 4 THEN p ELSE [i \in 1..(4 - Len(p)) |-> PAD] \o p

\* format!("{:z<4}", prefix): the width counts characters
PadPrefix(p) == IF Len(p) >= 4 THEN p ELSE p \o [i \in 1..(4 - Len(p)) |-> PAD]

\* prefix.chars().take(4).collect()
TakePrefix(p) == SubSeq(p, 1, 4)

\* from_prefix_and_milliseconds with the timestamp shifted by 80 bits, not 88
from_prefix_and_milliseconds_shift80(p, ms, random) ==
    LET time_bits == ShrBytes(ms, 1)
        rnd == U128FromU64(random)
        text == TakePrefix(PadPrefix(p)) \o VERSION
        d == decode_prefix(AsBytes(text))
    IN  IF ~d.ok THEN Panic
        ELSE Ok(OrBytes(OrBytes(OrBytes(OrBytes(
                    ShlBytes(time_bits, 10),
                    ShlBytes(rnd, 3)),
                    ShlBytes(U128FromU8(d.val[1]), 2)),
                    ShlBytes(U128FromU8(d.val[2]), 1)),
                    U128FromU8(d.val[3])))

\* from_prefix_and_milliseconds with the random draw shifted by 16 bits, not 24
from_prefix_and_milliseconds_shift16(p, ms, random) ==
    LET time_bits == ShrBytes(ms, 1)
        rnd == U128FromU64(random)
        text == TakePrefix(PadPrefix(p)) \o VERSION
        d == decode_prefix(AsBytes(text))
    IN  IF ~d.ok THEN Panic
        ELSE Ok(OrBytes(OrBytes(OrBytes(OrBytes(
                    ShlBytes(time_bits, 11),
                    ShlBytes(rnd, 2)),
                    ShlBytes(U128FromU8(d.val[1]), 2)),
                    ShlBytes(U128FromU8(d.val[2]), 1)),
                    U128FromU8(d.val[3])))

from_prefix_and_milliseconds(p, ms, random) ==
    LET time_bits == ShrBytes(ms, 1)
        rnd == U128FromU64(random)
        text == TakePrefix(PadPrefix(p)) \o VERSION
        d == decode_prefix(AsBytes(text))
    IN  IF ~d.ok THEN Panic
        ELSE Ok(OrBytes(OrBytes(OrBytes(OrBytes(
                    ShlBytes(time_bits, 11),
                    ShlBytes(rnd, 3)),
                    ShlBytes(U128FromU8(d.val[1]), 2)),
                    ShlBytes(U128FromU8(d.val[2]), 1)),
                    U128FromU8(d.val[3])))

\* from_prefix_and_datetime taking the distance from the epoch on either side
from_prefix_and_datetime_unclamped(p, datetime, random) ==
    LET milliseconds == datetime.millis
    IN  from_prefix_and_milliseconds(p, milliseconds, random)

\* a SystemTime is kept as its distance from UNIX_EPOCH in whole milliseconds
\* and the side of the epoch it lies on
from_prefix_and_datetime(p, datetime, random) ==
    LET milliseconds == IF datetime.before THEN Zeros(16) ELSE datetime.millis
    IN  from_prefix_and_milliseconds(p, milliseconds, random)

from_string(encoded) == decode(encoded)

to_string(u) == encode(u)

prefix(u) == encode_prefix(Slice(u, END_RANDO_BIN, Len(u))).prefix

\* milliseconds without the shift back to milliseconds
milliseconds_no_shift(u) == U64FromU128(ShrBytes(u, 11))

\* ((self.0 >> 88) << 8) as u64
milliseconds(u) == U64FromU128(ShlBytes(ShrBytes(u, 11), 1))

(***************************************************************************)
(* Inputs.                                                                 *)
(***************************************************************************)
Ones(n) == [i \in 1..n |-> 255]

\* the value of test_encode_decode (b32.rs)
TestValue == <<200, 76, 176, 214, 177, 16, 234, 183, 29, 217, 116, 136, 187, 5, 5, 5>>

\* the random draw of test_encode_decode (b32.rs)
TestRandom == <<16, 234, 183, 29, 217, 116, 136, 187>>

\* "user_aaccvpp5guht4dts56je5a" (lib.rs, from_string)
TestText ==
    <<117, 115, 101, 114, 95, 97, 97, 99, 99, 118, 112, 112, 53, 103, 117,
      104, 116, 52, 100, 116, 115, 53, 54, 106, 101, 53, 97>>

\* the same text with a second separator, after the time block
TestTextSep == SubSeq(TestText, 1, 13) \o <<UNDERSCORE>> \o SubSeq(TestText, 14, 27)

\* 1720568902000 (lib.rs, from_prefix_and_milliseconds)
TestMillis == <<0, 0, 0, 0, 0, 0, 0, 0, 0, 0, 1, 144, 153, 229, 241, 112>>

\* "user"
UserPrefix == <<117, 115, 101, 114>>

ByteVals == {0, 85, 170, 255}

\* the sequences that differ from one of S in at most k places, the
\* replacements drawn from C
RECURSIVE Edited(_, _, _)
Edited(S, C, k) ==
    IF k = 0 THEN S
    ELSE Edited(S \cup {[s EXCEPT ![i] = c] : s \in S, i \in 1..16, c \in C}, C, k - 1)

Values == Edited({Zeros(16), Ones(16), TestValue}, ByteVals, MaxEdits)

\* 'j' and 'k' are the alphabet's symbols 15 and 16; 'A' and U+00E9 are
\* outside the alphabet, in one byte and in two
TextChars == {106, 107, UNDERSCORE, 65, 233}

RECURSIVE Substituted(_, _)
Substituted(S, k) ==
    IF k = 0 THEN S
    ELSE Substituted(
            S \cup {[s EXCEPT ![i] = c] : s \in S, i \in 1..Len(TestText), c \in TextChars},
            k - 1)

Texts ==
    {SubSeq(t, 1, Len(t) - n) :
        t \in Substituted({TestText, TestTextSep}, MaxSubst), n \in 0..MaxCut}

\* 'a' (symbol 6), 'r' (symbol 23), '0' and U+00E9 (outside the alphabet)
PrefixChars == {97, 114, 48, 233}

RECURSIVE StringsUpTo(_)
StringsUpTo(n) ==
    IF n = 0 THEN {<<>>}
    ELSE LET S == StringsUpTo(n - 1)
         IN  S \cup {Append(s, c) : s \in S, c \in PrefixChars}

Prefixes == StringsUpTo(MaxPrefixLen)

\* millisecond arguments around TestMillis: bit 48 clear or set, the 256 ms
\* tick, the low byte the timestamp field drops
Millis ==
    {Zeros(16), Ones(16), TestMillis}
    \cup {[TestMillis EXCEPT ![10] = ov, ![15] = t, ![16] = lo] :
            ov \in {0, 1}, t \in 0..MaxTick, lo \in {0, 255}}

Randoms == {Zeros(8), Ones(8)}

\* a SystemTime holds no more than 2^63 seconds: the far times are taken
\* just above 2^48 ms
Datetimes ==
    {[before |-> b, millis |-> m] :
        b \in BOOLEAN, m \in {Zeros(16), TestMillis, [TestMillis EXCEPT ![10] = 1]}}

None == [ok |-> FALSE, val |-> <<>>, err |-> "unset"]

NoArgs == [op |-> "none", prefix |-> <<>>, ms |-> <<>>, random |-> <<>>, datetime |-> <<>>]

(***************************************************************************)
(* Spec: the codec.  A value is encoded and the text decoded              *)
(* (test_encode_decode, test_dynamic); a text is parsed and the value      *)
(* displayed (the example of from_string).                                 *)
(***************************************************************************)
Init ==
    /\ \/ pc = "value" /\ val \in Values /\ str = <<>>
       \/ pc = "text" /\ val = <<>> /\ str \in Texts
    /\ res = None
    /\ out = <<>>
    /\ args = NoArgs /\ upid = None
    /\ args2 = NoArgs /\ upid2 = None

\* Upid(val).to_string()
ToString ==
    /\ pc = "value"
    /\ str' = to_string(val)
    /\ pc' = "encoded"
    /\ UNCHANGED <<val, res, out, args, upid, args2, upid2>>

\* Upid::from_string of the text just produced
FromString ==
    /\ pc = "encoded"
    /\ res' = from_string(str)
    /\ pc' = "decoded"
    /\ UNCHANGED <<val, str, out, args, upid, args2, upid2>>

\* Upid::from_string of a caller's text
Parse ==
    /\ pc = "text"
    /\ res' = from_string(str)
    /\ pc' = "parsed"
    /\ UNCHANGED <<val, str, out, args, upid, args2, upid2>>

\* result.unwrap().to_string()
Display ==
    /\ pc = "parsed"
    /\ res.ok
    /\ out' = to_string(res.val)
    /\ pc' = "displayed"
    /\ UNCHANGED <<val, str, res, args, upid, args2, upid2>>

Next == ToString \/ FromString \/ Parse \/ Display

Spec == Init /\ [][Next]_vars

(***************************************************************************)
(* SpecUpid: the construction of one identifier.                           *)
(***************************************************************************)
InitUpid ==
    /\ pc = "new"
    /\ val = <<>> /\ str = <<>> /\ res = None /\ out = <<>>
    /\ args = NoArgs /\ upid = None
    /\ args2 = NoArgs /\ upid2 = None

FromPrefixAndMilliseconds ==
    /\ pc = "new"
    /\ \E p \in Prefixes, ms \in Millis, r \in Randoms :
        /\ args' = [op |-> "milliseconds", prefix |-> p, ms |-> ms, random |-> r,
                    datetime |-> <<>>]
        /\ upid' = from_prefix_and_milliseconds(p, ms, r)
    /\ pc' = "built"
    /\ UNCHANGED <<val, str, res, out, args2, upid2>>

FromPrefixAndDatetime ==
    /\ pc = "new"
    /\ \E p \in Prefixes, dt \in Datetimes, r \in Randoms :
        /\ args' = [op |-> "datetime", prefix |-> p, ms |-> <<>>, random |-> r,
                    datetime |-> dt]
        /\ upid' = from_prefix_and_datetime(p, dt, r)
    /\ pc' = "built"
    /\ UNCHANGED <<val, str, res, out, args2, upid2>>

NextUpid == FromPrefixAndMilliseconds \/ FromPrefixAndDatetime

SpecUpid == InitUpid /\ [][NextUpid]_vars

(***************************************************************************)
(* SpecOrder: two identifiers, built or wrapped, and their texts           *)
(* (test_order).                                                           *)
(***************************************************************************)
OrderPrefixes == {<<>>, <<97>>, UserPrefix}

\* values put together field by field: timestamp, randomness, prefix+version
OrderValues ==
    {t \o r \o p :
        t \in {Zeros(5), SubSeq(TestValue, 1, 5), Ones(5)},
        r \in {Zeros(8), TestRandom, Ones(8)},
        p \in {Zeros(3), <<5, 5, 5>>, <<214, 21, 118>>, <<214, 21, 127>>, Ones(3)}}

InitOrder ==
    /\ pc = "new"
    /\ val = <<>> /\ str = <<>> /\ res = None /\ out = <<>>
    /\ args = NoArgs /\ upid = None
    /\ args2 = NoArgs /\ upid2 = None

BuildFirst ==
    /\ pc = "new"
    /\ \E p \in OrderPrefixes, ms \in Millis, r \in Randoms :
        /\ args' = [op |-> "milliseconds", prefix |-> p, ms |-> ms, random |-> r,
                    datetime |-> <<>>]
        /\ upid' = from_prefix_and_milliseconds(p, ms, r)
    /\ pc' = "one"
    /\ UNCHANGED <<val, str, res, out, args2, upid2>>

BuildFirstAt ==
    /\ pc = "new"
    /\ \E p \in OrderPrefixes, dt \in Datetimes, r \in Randoms :
        /\ args' = [op |-> "datetime", prefix |-> p, ms |-> <<>>, random |-> r,
                    datetime |-> dt]
        /\ upid' = from_prefix_and_datetime(p, dt, r)
    /\ pc' = "one"
    /\ UNCHANGED <<val, str, res, out, args2, upid2>>

\* Upid::from(v)
WrapFirst ==
    /\ pc = "new"
    /\ \E v \in OrderValues :
        /\ args' = [NoArgs EXCEPT !.op = "from_u128"]
        /\ upid' = Ok(v)
    /\ pc' = "one"
    /\ UNCHANGED <<val, str, res, out, args2, upid2>>

BuildSecond ==
    /\ pc = "one"
    /\ \E p \in OrderPrefixes, ms \in Millis, r \in Randoms :
        /\ args2' = [op |-> "milliseconds", prefix |-> p, ms |-> ms, random |-> r,
                     datetime |-> <<>>]
        /\ upid2' = from_prefix_and_milliseconds(p, ms, r)
    /\ pc' = "two"
    /\ UNCHANGED <<val, str, res, out, args, upid>>

BuildSecondAt ==
    /\ pc = "one"
    /\ \E p \in OrderPrefixes, dt \in Datetimes, r \in Randoms :
        /\ args2' = [op |-> "datetime", prefix |-> p, ms |-> <<>>, random |-> r,
                     datetime |-> dt]
        /\ upid2' = from_prefix_and_datetime(p, dt, r)
    /\ pc' = "two"
    /\ UNCHANGED <<val, str, res, out, args, upid>>

WrapSecond ==
    /\ pc = "one"
    /\ \E v \in OrderValues :
        /\ args2' = [NoArgs EXCEPT !.op = "from_u128"]
        /\ upid2' = Ok(v)
    /\ pc' = "two"
    /\ UNCHANGED <<val, str, res, out, args, upid>>

\* to_string of both
ShowBoth ==
    /\ pc = "two"
    /\ upid.ok /\ upid2.ok
    /\ str' = to_string(upid.val)
    /\ out' = to_string(upid2.val)
    /\ pc' = "shown"
    /\ UNCHANGED <<val, res, args, upid, args2, upid2>>

NextOrder ==
    \/ BuildFirst \/ BuildFirstAt \/ WrapFirst
    \/ BuildSecond \/ BuildSecondAt \/ WrapSecond
    \/ ShowBoth

SpecOrder == InitOrder /\ [][NextOrder]_vars

(***************************************************************************)
(* Properties of the codec, under Spec.                                    *)
(***************************************************************************)
\* the symbols of a text: what is left when the separators are removed
Symbols(s) == RemoveChar(s, UNDERSCORE)

\* C1: decoding the encoding of a 128-bit value succeeds and gives back the
\* value: from_string(Upid(v).to_string()) = Ok(Upid(v)).
C1_DecodeEncode == pc = "decoded" => res = Ok(val)

\* the round trip of the all-one value, whose every field is all-one
C1_Witness == pc = "decoded" /\ val = Ones(16) /\ res.ok /\ res.val = Ones(16)

\* prefix(4) '_' time(8) randomness(13) version(1): 27 characters, the one
\* separator in the fifth place
HasFormat(s) ==
    /\ Len(s) = PREFIX_CHAR_LEN + 1 + TIME_CHAR_LEN + RANDO_CHAR_LEN + VERSION_CHAR_LEN
    /\ \A i \in 1..Len(s) : (s[i] = UNDERSCORE) <=> (i = PREFIX_CHAR_LEN + 1)

\* C2: a text in the format prefix_time randomness version that decode
\* accepts is given back character for character by encode.
C2_EncodeDecode == (pc = "displayed" /\ HasFormat(str)) => out = str

\* the example of from_string: "user_aaccvpp5guht4dts56je5a" comes back
C2_Witness == pc = "displayed" /\ str = TestText /\ HasFormat(str) /\ out = TestText

\* a text of alphabet characters only
AlphabetOnly(s) == \A i \in 1..Len(s) : InAlphabet(s[i])

\* a text of 26 symbols, all of the alphabet, being parsed
Parsed26 ==
    /\ pc = "parsed"
    /\ Len(Symbols(str)) = CHAR_LEN
    /\ AlphabetOnly(Symbols(str))

\* C5 as claimed: a 26-symbol alphabet-only text whose 4th symbol (the last
\* prefix character) or 25th symbol (the 13th randomness character) is of
\* the upper half of the alphabet fails with Overflow.
C5_Original ==
    (Parsed26 /\ (DECODE(Symbols(str)[4]) >= 16 \/ DECODE(Symbols(str)[25]) >= 16))
        => res = Err("Overflow")

\* C5 as amended: a 26-symbol alphabet-only text whose 26th symbol (the
\* version character) or 25th symbol (the 13th randomness character) is of
\* the upper half of the alphabet fails with Overflow.
C5_OverflowPositions ==
    (Parsed26 /\ (DECODE(Symbols(str)[26]) >= 16 \/ DECODE(Symbols(str)[25]) >= 16))
        => res = Err("Overflow")

\* an upper-half version character alone makes decode fail with Overflow
C5_Witness ==
    /\ Parsed26
    /\ DECODE(Symbols(str)[26]) >= 16
    /\ DECODE(Symbols(str)[25]) <= 15
    /\ res = Err("Overflow")

\* C6: a text whose symbol count, separators removed, is not 26 fails with
\* InvalidLength, whatever its characters.
C6_LengthFirst ==
    (pc = "parsed" /\ Len(Symbols(str)) # CHAR_LEN) => res = Err("InvalidLength")

\* C7: a text of 26 symbols, one of them at least outside the alphabet,
\* fails with InvalidChar.
C7_AlphabetCheck ==
    (pc = "parsed" /\ Len(Symbols(str)) = CHAR_LEN /\ ~AlphabetOnly(Symbols(str)))
        => res = Err("InvalidChar")

\* What decode does test, in bytes: a text whose byte count, separators
\* removed, is not 26 fails with InvalidLength.
ByteLengthFirst ==
    (pc = "parsed" /\ Len(AsBytes(Symbols(str))) # CHAR_LEN) => res = Err("InvalidLength")

\* A text of 26 bytes, separators removed, one of them at least outside the
\* alphabet, fails with InvalidChar.
ByteAlphabetCheck ==
    (pc = "parsed" /\ Len(AsBytes(Symbols(str))) = CHAR_LEN /\ ~AlphabetOnly(Symbols(str)))
        => res = Err("InvalidChar")

(***************************************************************************)
(* Properties of construction, under SpecUpid.                             *)
(***************************************************************************)
\* a prefix cut or filled with 'z' to four characters
Normalized(p) == [i \in 1..4 |-> IF i <= Len(p) THEN p[i] ELSE PAD]

\* C8: the prefix() of an identifier built from an alphabet-only prefix is
\* that prefix cut to four characters or filled up with 'z' to four.
C8_PrefixNormalized ==
    (pc = "built" /\ AlphabetOnly(args.prefix))
        => (upid.ok /\ prefix(upid.val) = Normalized(args.prefix))

\* "ar" is given and "arzz" is read back
C8_Witness ==
    /\ pc = "built"
    /\ args.prefix = <<97, 114>>
    /\ upid.ok
    /\ prefix(upid.val) = <<97, 114, 122, 122>>

\* C9: every place of the normalized prefix reads back as its own
\* character when that is of the alphabet and as 'z' when it is not.
C9_InvalidReplaced ==
    pc = "built"
        => /\ upid.ok
           /\ \A i \in 1..4 :
                prefix(upid.val)[i] =
                    IF InAlphabet(Normalized(args.prefix)[i])
                    THEN Normalized(args.prefix)[i]
                    ELSE PAD

\* 256 and 2^48 as u128
U128_256 == Zeros(14) \o <<1, 0>>
U128_2_48 == Zeros(9) \o <<1>> \o Zeros(6)

\* milliseconds() <= ms and ms - milliseconds() < 256
Within256(ms, u) ==
    LET got == U128FromU64(milliseconds(u))
    IN  /\ ~LessBytes(ms, got)
        /\ LessBytes(SubBytes(ms, got), U128_256)

\* C10 as claimed: for every u128 millisecond argument the identifier's
\* milliseconds() is at most the argument and less than 256 below it.
C10_Original ==
    (pc = "built" /\ args.op = "milliseconds") => (upid.ok /\ Within256(args.ms, upid.val))

\* C10 as amended: the same for every millisecond argument below 2^48.
C10_TimestampPrecision ==
    (pc = "built" /\ args.op = "milliseconds" /\ LessBytes(args.ms, U128_2_48))
        => (upid.ok /\ Within256(args.ms, upid.val))

\* 1720568902000 is given and 1720568901888 is read back
C10_Witness ==
    /\ pc = "built"
    /\ args.op = "milliseconds"
    /\ args.ms = TestMillis
    /\ upid.ok
    /\ milliseconds(upid.val) = <<0, 0, 1, 144, 153, 229, 241, 0>>

(***************************************************************************)
(* Properties of order, under SpecOrder.                                   *)
(***************************************************************************)
\* both identifiers were built from a prefix and milliseconds, and shown
BuiltPair == pc = "shown" /\ args.op = "milliseconds" /\ args2.op = "milliseconds"

\* t1 < t2 and t2 - t1 >= 256
Apart256(t1, t2) == LessBytes(t1, t2) /\ ~LessBytes(SubBytes(t2, t1), U128_256)

\* C3 as claimed: of two identifiers built for times at least 256 ms
\* apart, with any prefixes, the earlier one's text is the lesser string.
C3_Original == (BuiltPair /\ Apart256(args.ms, args2.ms)) => StrLess(str, out)

\* C3 as amended: the same for times below 2^48 ms and prefixes of which
\* the earlier identifier's prefix() is not the greater string.
C3_MonotonicText ==
    (/\ BuiltPair
     /\ Apart256(args.ms, args2.ms)
     /\ LessBytes(args2.ms, U128_2_48)
     /\ ~StrLess(prefix(upid2.val), prefix(upid.val)))
        => StrLess(str, out)

\* same prefix, the earlier identifier with the greater random draw
C3_Witness ==
    /\ BuiltPair
    /\ Apart256(args.ms, args2.ms)
    /\ LessBytes(args2.ms, U128_2_48)
    /\ args.prefix = UserPrefix /\ args2.prefix = UserPrefix
    /\ args.random = Ones(8) /\ args2.random = Zeros(8)
    /\ StrLess(str, out)

\* the fields of a value in the order the text writes them: prefix (bits
\* 23..4), timestamp, randomness, version (bits 3..0)
TextKey(v) ==
    <<(v[14] * 65536 + v[15] * 256 + v[16]) \div 16>> \o SubSeq(v, 1, 13) \o <<v[16] % 16>>

\* C4 as claimed: encode(a) < encode(b) exactly when a < b.
C4_Original == pc = "shown" => (StrLess(str, out) <=> LessBytes(upid.val, upid2.val))

\* C4 as amended: encode(a) < encode(b) exactly when a's fields, taken in
\* the order prefix, timestamp, randomness, version, come before b's.
C4_TextOrder ==
    pc = "shown" => (StrLess(str, out) <=> LessBytes(TextKey(upid.val), TextKey(upid2.val)))

\* a pair the integers order one way and the texts the other
C4_Witness ==
    /\ pc = "shown"
    /\ LessBytes(upid2.val, upid.val)
    /\ StrLess(str, out)
    /\ LessBytes(TextKey(upid.val), TextKey(upid2.val))

\* the time an identifier was built for: its distance from the epoch and
\* the side of the epoch it lies on
ArgTime(a) ==
    IF a.op = "datetime" THEN a.datetime ELSE [before |-> FALSE, millis |-> a.ms]

\* t1 < t2 and t2 - t1 >= d, for two times on either side of the epoch
ApartBy(t1, t2, d) ==
    IF ~t1.before /\ ~t2.before
    THEN LessBytes(t1.millis, t2.millis) /\ ~LessBytes(SubBytes(t2.millis, t1.millis), d)
    ELSE IF t1.before /\ t2.before
    THEN LessBytes(t2.millis, t1.millis) /\ ~LessBytes(SubBytes(t1.millis, t2.millis), d)
    ELSE IF t1.before
    THEN ~LessBytes(t1.millis, d) \/ ~LessBytes(t2.millis, SubBytes(d, t1.millis))
    ELSE FALSE

\* 257 as u128
U128_257 == Zeros(14) \o <<1, 1>>

\* both identifiers were built by a constructor, for times 257 ms apart
BuiltApart ==
    /\ pc = "shown"
    /\ args.op \in {"milliseconds", "datetime"}
    /\ args2.op \in {"milliseconds", "datetime"}
    /\ ApartBy(ArgTime(args), ArgTime(args2), U128_257)

\* C11 as claimed: of two identifiers built for times at least 257 ms
\* apart, the earlier one is the lesser 128-bit value, for any prefixes and
\* random draws.
C11_Original == BuiltApart => LessBytes(upid.val, upid2.val)

\* C11 as amended: the same for times at or after the epoch and below
\* 2^48 ms.
C11_ValueOrder ==
    (/\ BuiltApart
     /\ ~ArgTime(args).before
     /\ LessBytes(ArgTime(args2).millis, U128_2_48))
        => LessBytes(upid.val, upid2.val)

\* the epoch with prefix "user" and an all-one draw comes before a later
\* time with the empty prefix and an all-zero draw
C11_Witness ==
    /\ BuiltApart
    /\ args.op = "datetime" /\ args2.op = "datetime"
    /\ ~args.datetime.before /\ args.datetime.millis = Zeros(16)
    /\ ~args2.datetime.before /\ args2.datetime.millis = TestMillis
    /\ args.prefix = UserPrefix /\ args2.prefix = <<>>
    /\ args.random = Ones(8) /\ args2.random = Zeros(8)
    /\ LessBytes(upid.val, upid2.val)

\* the text from_prefix_and_milliseconds hands to decode_prefix
PrefixText(p) == AsBytes(TakePrefix(PadPrefix(p)) \o VERSION)

\* C12: every constructor call returns an identifier, whatever the prefix
\* and the time; the last byte given to decode_prefix is the version
\* character, whose index is below 16, so Overflow is never returned.
C12_ConstructionNeverFails ==
    pc = "built" =>
        /\ upid.ok /\ Len(upid.val) = 16
        /\ At(PrefixText(args.prefix), Len(PrefixText(args.prefix)) - 1) = VERSION[1]
        /\ DECODE(VERSION[1]) <= 15
        /\ decode_prefix(PrefixText(args.prefix)).ok

\* a prefix of five characters with '0' and a two-byte character in it
C12_Witness ==
    /\ pc = "built" /\ upid.ok
    /\ Len(args.prefix) = 5
    /\ \E i, j \in 1..5 : args.prefix[i] = 48 /\ args.prefix[j] = 233

\* the epoch itself
UNIX_EPOCH == [before |-> FALSE, millis |-> Zeros(16)]

\* C13: from_prefix_and_datetime with a datetime before the epoch returns
\* an identifier whose milliseconds() is 0, the identifier the epoch itself
\* gives for the same prefix and random draw.
C13_EpochClamping ==
    (pc = "built" /\ args.op = "datetime" /\ args.datetime.before) =>
        /\ upid.ok
        /\ milliseconds(upid.val) = Zeros(8)
        /\ SubSeq(upid.val, 1, TIME_BIN_LEN) = Zeros(TIME_BIN_LEN)
        /\ upid = from_prefix_and_datetime(args.prefix, UNIX_EPOCH, args.random)

\* a datetime TestMillis before the epoch
C13_Witness ==
    /\ pc = "built" /\ args.op = "datetime"
    /\ args.datetime.before /\ args.datetime.millis = TestMillis
    /\ upid.ok /\ milliseconds(upid.val) = Zeros(8)

\* what C14 says decode returns for a text: the three conditions on its
\* symbols taken in order
Expected(s) ==
    IF Len(Symbols(s)) # CHAR_LEN THEN Err("InvalidLength")
    ELSE IF ~AlphabetOnly(Symbols(s)) THEN Err("InvalidChar")
    ELSE IF DECODE(Symbols(s)[25]) > 15 \/ DECODE(Symbols(s)[26]) > 15 THEN Err("Overflow")
    ELSE res

\* C14: decode returns a value exactly for the texts of 26 symbols, all of
\* the alphabet, whose 25th and 26th symbols have an index of 15 at most;
\* any other text fails with InvalidLength, InvalidChar or Overflow, the
\* three conditions being tested in that order.
C14_ExactAcceptance ==
    pc = "parsed" =>
        /\ res.ok <=> (/\ Len(Symbols(str)) = CHAR_LEN
                       /\ AlphabetOnly(Symbols(str))
                       /\ DECODE(Symbols(str)[25]) <= 15
                       /\ DECODE(Symbols(str)[26]) <= 15)
        /\ res = Expected(str)

\* The part of C14 that decode does meet: the texts it accepts are those of
\* the three conditions, and any other text gets one of the three errors.
AcceptanceOnly ==
    pc = "parsed" =>
        /\ res.ok <=> (/\ Len(Symbols(str)) = CHAR_LEN
                       /\ AlphabetOnly(Symbols(str))
                       /\ DECODE(Symbols(str)[25]) <= 15
                       /\ DECODE(Symbols(str)[26]) <= 15)
        /\ ~res.ok => res.err \in {"InvalidLength", "InvalidChar", "Overflow"}

\* C15: every identifier a constructor returns has the index of the
\* version character 'a', 6, in its low 4 bits, and its text ends in 'a'.
C15_FixedVersion ==
    pc = "built" =>
        /\ upid.ok
        /\ upid.val[16] % 16 = DECODE(VERSION[1])
        /\ to_string(upid.val)[CHAR_LEN + 1] = VERSION[1]

\* The same for the prefixes of one-byte characters, in or out of the
\* alphabet: the version character is then the fifth byte decode_prefix
\* reads.
AsciiFixedVersion ==
    (pc = "built" /\ \A i \in 1..Len(args.prefix) : args.prefix[i] < 128) =>
        /\ upid.ok
        /\ upid.val[16] % 16 = DECODE(VERSION[1])
        /\ to_string(upid.val)[CHAR_LEN + 1] = VERSION[1]

\* the milliseconds a constructor call was made with
ArgMillis(a) ==
    IF a.op = "datetime"
    THEN (IF a.datetime.before THEN Zeros(16) ELSE a.datetime.millis)
    ELSE a.ms

\* C16: in a constructed identifier the low 24 bits, and prefix(), are
\* those the prefix alone decodes to, whatever the time and the draw; the
\* top 40 bits, and milliseconds(), are bits 47..8 of the time, whatever
\* the prefix and the draw; bits 87..24 are the 64-bit random draw.
C16_FieldIndependence ==
    pc = "built" =>
        /\ upid.ok
        /\ SubSeq(upid.val, END_RANDO_BIN + 1, 16) = decode_prefix(PrefixText(args.prefix)).val
        /\ prefix(upid.val) = prefix(Zeros(END_RANDO_BIN) \o decode_prefix(PrefixText(args.prefix)).val)
        /\ SubSeq(upid.val, 1, TIME_BIN_LEN) = SubSeq(ArgMillis(args), 11, 15)
        /\ milliseconds(upid.val) = <<0, 0>> \o SubSeq(ArgMillis(args), 11, 15) \o <<0>>
        /\ SubSeq(upid.val, TIME_BIN_LEN + 1, END_RANDO_BIN) = args.random

\* prefix "ar", the example time and an all-one draw, each in its field
C16_Witness ==
    /\ pc = "built" /\ args.op = "milliseconds"
    /\ args.prefix = <<97, 114>> /\ args.ms = TestMillis /\ args.random = Ones(8)
    /\ upid.ok
    /\ upid.val = SubSeq(TestMillis, 11, 15) \o Ones(8) \o <<53, 255, 246>>

\* the two texts begin with the same prefix block
SamePrefixBlock ==
    /\ pc = "shown"
    /\ SubSeq(str, 1, PREFIX_CHAR_LEN) = SubSeq(out, 1, PREFIX_CHAR_LEN)

\* C17: of two values whose texts begin with the same four prefix
\* characters, the text of one comes before the text of the other exactly
\* when the one is the lesser integer.
C17_SortableWithinPrefix ==
    SamePrefixBlock => (StrLess(str, out) <=> LessBytes(upid.val, upid2.val))

\* two identifiers of prefix "user" and of one time, told apart by the
\* random draw alone, in the same order as texts and as integers
C17_Witness ==
    /\ SamePrefixBlock
    /\ args.op = "milliseconds" /\ args2.op = "milliseconds"
    /\ args.prefix = UserPrefix /\ args2.prefix = UserPrefix
    /\ args.ms = TestMillis /\ args2.ms = TestMillis
    /\ args.random = Zeros(8) /\ args2.random = Ones(8)
    /\ StrLess(str, out) /\ LessBytes(upid.val, upid2.val)

====
